---- MODULE Spec2Model ----
(***************************************************************************)
(* The auto-linking engine of the backend (app/services/document_service)  *)
(* together with the link endpoints (app/api/v1/endpoints/text_links), the *)
(* text update endpoint and the word catalog endpoints, as one state       *)
(* machine over the link store.                                            *)
(*                                                                         *)
(* Strings are sequences of characters; a character is named by a string   *)
(* ("aacute" is U+00E1, "acute" the combining mark U+0301).  Offsets are   *)
(* 0-based as in Python: the character at offset p is s[p + 1].            *)
(***************************************************************************)
EXTENDS Integers, Sequences, FiniteSets, TLC

NULL == "NULL"

(***************************************************************************)
(* Characters and the tables of Python's re / unicodedata that the         *)
(* service relies on.                                                      *)
(***************************************************************************)
\* "lstroke" is U+0142, l with stroke: a letter without decomposition.
Letters == {"a", "A", "aacute", "Aacute", "b", "l", "lstroke"}
Digits == {"one"}
\* \w under re.UNICODE: alphanumerics and the underscore.
WordChars == Letters \cup Digits \cup {"underscore"}
\* The character class [\w'-] of TOKEN_PATTERN.
ClassChars == WordChars \cup {"apos", "hyphen"}
\* Characters of Unicode category Mn.
CombiningMarks == {"acute"}
Chars == ClassChars \cup CombiningMarks \cup {"space", "period"}

\* A decomposition that leaves every character as it is.
NFDChar_composed(c) == <<c>>

\* unicodedata.normalize("NFD", c) for one character.
NFDChar(c) ==
    CASE c = "aacute" -> <<"a", "acute">>
      [] c = "Aacute" -> <<"A", "acute">>
      [] OTHER -> <<c>>

\* str.casefold() for one character.
CasefoldChar(c) ==
    CASE c = "A" -> "a"
      [] c = "Aacute" -> "aacute"
      [] OTHER -> c

RECURSIVE NFD(_)
NFD(s) == IF s = <<>> THEN <<>> ELSE NFDChar(Head(s)) \o NFD(Tail(s))

casefold(s) == [i \in 1..Len(s) |-> CasefoldChar(s[i])]

IsMark(c) == c \in CombiningMarks

NotMark(c) == ~IsMark(c)

\* _strip_diacritics: NFD, drop the characters of category Mn, casefold.
strip_diacritics(value) == casefold(SelectSeq(NFD(value), NotMark))

(***************************************************************************)
(* TOKEN_PATTERN = \b[\w'-]+\b and _iter_tokens (finditer).                *)
(***************************************************************************)
IsWordAt(s, p) == p >= 0 /\ p < Len(s) /\ s[p + 1] \in WordChars

\* \b at offset p: exactly one of the characters before and after is \w.
Boundary(s, p) == IsWordAt(s, p - 1) # IsWordAt(s, p)

\* Where the greedy [\w'-]+ started at offset p stops.
GreedyEnd(s, p) ==
    LET stops == {q \in p..Len(s) : q = Len(s) \/ s[q + 1] \notin ClassChars}
    IN  CHOOSE q \in stops : \A r \in stops : q <= r

\* A match that takes the whole greedy run, without the closing \b.
MatchEnd_greedy(s, p) ==
    IF ~Boundary(s, p) \/ GreedyEnd(s, p) = p THEN -1 ELSE GreedyEnd(s, p)

\* End offset of the match attempted at offset p, or -1: the regex engine
\* backtracks from the greedy end to the last offset that is a boundary.
MatchEnd(s, p) ==
    IF ~Boundary(s, p) THEN -1
    ELSE LET ends == {q \in (p + 1)..GreedyEnd(s, p) : Boundary(s, q)}
         IN  IF ends = {} THEN -1
             ELSE CHOOSE q \in ends : \A r \in ends : q >= r

\* A scan that resumes one character after the start of a match, not at
\* its end: matches may overlap.
RECURSIVE ScanTokens_overlapping(_, _)
ScanTokens_overlapping(s, p) ==
    IF p >= Len(s) THEN <<>>
    ELSE LET e == MatchEnd(s, p)
         IN  IF e = -1 THEN ScanTokens_overlapping(s, p + 1)
             ELSE <<[token |-> SubSeq(s, p + 1, e), start |-> p, end |-> e]>>
                      \o ScanTokens_overlapping(s, p + 1)

\* finditer: the matches from offset p on, each search resumed at the end
\* of the match before.
RECURSIVE ScanTokens(_, _)
ScanTokens(s, p) ==
    IF p >= Len(s) THEN <<>>
    ELSE LET e == MatchEnd(s, p)
         IN  IF e = -1 THEN ScanTokens(s, p + 1)
             ELSE <<[token |-> SubSeq(s, p + 1, e), start |-> p, end |-> e]>>
                      \o ScanTokens(s, e)

\* _iter_tokens(content): the (token, start, end) triples, left to right.
iter_tokens(content) == ScanTokens(content, 0)

(***************************************************************************)
(* The world of the model: two texts of one document, a universe of three  *)
(* dictionary words, one contributor (u1) acting through the endpoints.    *)
(***************************************************************************)
TextIds == {"t1", "t2"}
\* The order in which db.query(Text).filter(document_id == d).all() yields.
TextOrder == <<"t1", "t2">>
DocumentIds == {"d1"}
DocumentOf(t) == "d1"
\* Text.created_by_id: u1 owns t1, somebody else owns t2.
TextOwner(t) == IF t = "t1" THEN "u1" ELSE "u2"
CurrentUser == "u1"
\* The creator_id an engine call may carry.
Creators == {"u2"}
Languages == {"L1", "L2"}

ShortContent == <<"b">>
LongContent == <<"Aacute", "space", "a", "hyphen">>
\* Contents a text update may carry (TextUpdate.content has min_length 1).
NewContents == {ShortContent, LongContent}
\* Languages a text update may carry (an explicit null clears the language).
NewLanguages == {NULL, "L1"}
\* The bodies of the text updates: the content alone, or the language alone.
TextUpdates ==
    [{"content"} -> NewContents] \cup [{"language_id"} -> NewLanguages]

\* The words a create_word request may carry: Word.word and Word.language_id.
WordTable ==
    [w \in {"w1", "w2", "w3", "w4", "w5"} |->
        CASE w = "w1" -> [word |-> <<"a">>, language_id |-> "L1"]
          [] w = "w2" -> [word |-> <<"Aacute">>, language_id |-> "L1"]
          [] w = "w3" -> [word |-> <<"a">>, language_id |-> "L2"]
          [] w = "w4" -> [word |-> <<"A">>, language_id |-> "L1"]
          [] w = "w5" -> [word |-> <<"a", "hyphen", "a">>, language_id |-> "L1"]]
\* The words the create_word requests carry.
WordIds == {"w1", "w2", "w3"}
\* The words a delete_word request may name.
DeletableWordIds == {"w1", "w2"}

Statuses == {"suggested", "confirmed", "rejected"}
\* Spans a create_text_link request may carry (start_char >= 0, end_char > 0).
ManualSpans == {<<0, 1>>}
\* The word and the note a create_text_link request may carry.
ManualWordIds == {"w1"}
ManualNotes == {"n"}
\* The word and the note an update_text_link request may carry (NULL: none).
UpdateWordIds == {NULL}
UpdateNotes == {NULL}
\* datetime.utcnow() at the time of a review.
UtcNow == "utcnow"

VARIABLES
    texts,    \* text id -> [content, language_id]   (the texts table)
    words,    \* the words table, in the order a query yields it
    links,    \* the text_word_links table: a set of link rows
    lastOp,   \* the last operation: its arguments and what it returned
    sessions, \* request -> the database session of a request in progress
    call      \* the last call of a pure function: its argument and result

vars == <<texts, words, links, lastOp, sessions, call>>
\* What an operation served in one piece leaves alone.
others == <<sessions, call>>

Span(l) == <<l.start_char, l.end_char>>
\* A query of the links without the filter on the text.
LinksOf_any_text(store, t) == store
\* db.query(TextWordLink).filter(TextWordLink.text_id == t).all()
LinksOf(store, t) == {l \in store : l.text_id = t}
Ids(store) == {l.id : l \in store}

\* uuid.uuid4(): an id no row of the table holds.  An id is opaque; the model
\* names a row by its text and span and a serial number, the smallest that
\* makes the name differ from every id in `taken' (the ids of the rows the
\* table held when the operation began and of the rows it has added since).
FreshId(t, start, end, taken) ==
    LET Name(k) == <<t, start, end, k>>
        k0 == CHOOSE k \in 0..Cardinality(taken) :
                  Name(k) \notin taken /\ \A j \in 0..(k - 1) : Name(j) \in taken
    IN  Name(k0)

NoOp ==
    [op |-> "none", text |-> NULL, replace |-> FALSE, creator |-> NULL,
     before |-> {}, created |-> <<>>, keys |-> {}, code |-> "ok",
     rerun |-> FALSE]

\* The requests that may be in progress at the same time.
Requests == {"r1", "r2"}
\* The session of a request that is not in progress: nothing loaded, nothing
\* pending.
NoSession ==
    [pc |-> "idle", text |-> NULL, loaded |-> {}, deleted |-> {},
     created |-> <<>>, code |-> "none"]
\* No call of a pure function yet.
NoCall == [fn |-> "none", arg |-> <<>>, result |-> <<>>]

TypeOK ==
    /\ \A t \in TextIds :
          /\ texts[t].content \in Seq(Chars)
          /\ texts[t].language_id \in Languages \cup {NULL}
    /\ \A i \in 1..Len(words) : words[i] \in DOMAIN WordTable
    /\ \A l \in links :
          /\ l.text_id \in TextIds
          /\ l.status \in Statuses
          /\ l.start_char \in Nat /\ l.end_char \in Nat

\* The tables to start from: t1 as the endpoints store a text; t2 a row with
\* empty content, which the column allows and the engine guards against
\* (create and update requests carry content of length >= 1); one word of
\* another language in the catalog; no links.
Init ==
    /\ texts = [t \in TextIds |->
                   [content |-> IF t = "t1" THEN LongContent ELSE <<>>,
                    language_id |-> "L1"]]
    /\ words = <<"w3">>
    /\ links = {}
    /\ lastOp = NoOp
    /\ sessions = [r \in Requests |-> NoSession]
    /\ call = NoCall

(***************************************************************************)
(* The suggestion engine (services/document_service.py).                   *)
(***************************************************************************)
\* A query of the words without the filter on the language.
WordsOfLanguage_any(catalog, language_id) == catalog

\* db.query(Word).filter(Word.language_id == language_id).all()
WordsOfLanguage(catalog, language_id) ==
    LET InLanguage(w) == WordTable[w].language_id = language_id
    IN  SelectSeq(catalog, InLanguage)

\* _build_word_index: normalized key -> the words with that key, in the
\* order of the query; a word whose key is empty is left out.
build_word_index(ws) ==
    LET keys == {strip_diacritics(WordTable[ws[i]].word) : i \in 1..Len(ws)} \ {<<>>}
    IN  [k \in keys |->
            LET HasKey(w) == strip_diacritics(WordTable[w].word) = k
            IN  SelectSeq(ws, HasKey)]

\* A lookup that ignores the key: the candidates of some key of the index.
Candidates_of_any_key(index, normalized) ==
    IF DOMAIN index = {} THEN <<>>
    ELSE index[CHOOSE k \in DOMAIN index : TRUE]

\* word_index.get(normalized): the candidates, or none.
Candidates(index, normalized) ==
    IF normalized \in DOMAIN index THEN index[normalized] ELSE <<>>

\* A choice that takes the first candidate, exact or not.
select_word_first(matches, token) == matches[1]

\* next((w for w in matches if w.word.casefold() == token.casefold()), matches[0])
select_word(matches, token) ==
    LET exact == {i \in 1..Len(matches) :
                     casefold(WordTable[matches[i]].word) = casefold(token)}
    IN  IF exact = {} THEN matches[1]
        ELSE matches[CHOOSE i \in exact : \A j \in exact : i <= j]

\* A suggestion that drops the creator.
NewSuggestion_anonymous(id, t, word_id, start, end, creator) ==
    [id |-> id, text_id |-> t, word_id |-> word_id,
     start_char |-> start, end_char |-> end,
     status |-> "suggested", confidence |-> "1.0", notes |-> NULL,
     created_by_id |-> NULL, verified_by_id |-> NULL, verified_at |-> NULL]

\* TextWordLink(text_id, word_id, start_char, end_char, status=SUGGESTED,
\* confidence=1.0, created_by_id=creator_id); the other columns default.
NewSuggestion(id, t, word_id, start, end, creator) ==
    [id |-> id, text_id |-> t, word_id |-> word_id,
     start_char |-> start, end_char |-> end,
     status |-> "suggested", confidence |-> "1.0", notes |-> NULL,
     created_by_id |-> creator, verified_by_id |-> NULL, verified_at |-> NULL]

\* A loop that passes over no span.
SkipSpan_never(sp, existing_spans, rejected_spans) == FALSE

\* A loop that passes over rejected spans only.
SkipSpan_rejected_only(sp, existing_spans, rejected_spans) ==
    sp \in rejected_spans

\* A loop that passes over every token whose span overlaps the span of an
\* existing link.
SkipSpan_overlapping(sp, existing_spans, rejected_spans) ==
    \E e \in existing_spans : e[1] < sp[2] /\ sp[1] < e[2]

\* Whether the loop passes over the token at span sp without a link.
SkipSpan(sp, existing_spans, rejected_spans) ==
    sp \in rejected_spans \/ sp \in existing_spans

\* A loop that ends at the first token no word of the catalog matches.
RECURSIVE TokenLoop_until_unmatched(_, _, _, _, _, _, _, _)
TokenLoop_until_unmatched(toks, k, existing_spans, rejected_spans, index, t, creator, taken) ==
    IF k > Len(toks) THEN <<>>
    ELSE
        LET tok == toks[k]
            sp == <<tok.start, tok.end>>
            matches == Candidates(index, strip_diacritics(tok.token))
        IN  IF matches = <<>> THEN <<>>
            ELSE IF SkipSpan(sp, existing_spans, rejected_spans)
            THEN TokenLoop_until_unmatched(toks, k + 1, existing_spans,
                                           rejected_spans, index, t, creator,
                                           taken)
            ELSE
                LET id == FreshId(t, tok.start, tok.end, taken)
                    link == NewSuggestion(id, t, select_word(matches, tok.token),
                                          tok.start, tok.end, creator)
                IN  <<link>> \o TokenLoop_until_unmatched(
                                    toks, k + 1, existing_spans \cup {sp},
                                    rejected_spans, index, t, creator,
                                    taken \cup {id})

\* The loop over the tokens from the k-th on: the links created, in order.
RECURSIVE TokenLoop(_, _, _, _, _, _, _, _)
TokenLoop(toks, k, existing_spans, rejected_spans, index, t, creator, taken) ==
    IF k > Len(toks) THEN <<>>
    ELSE
        LET tok == toks[k]
            sp == <<tok.start, tok.end>>
            matches == Candidates(index, strip_diacritics(tok.token))
        IN  IF SkipSpan(sp, existing_spans, rejected_spans) \/ matches = <<>>
            THEN TokenLoop(toks, k + 1, existing_spans, rejected_spans,
                           index, t, creator, taken)
            ELSE
                LET id == FreshId(t, tok.start, tok.end, taken)
                    link == NewSuggestion(id, t, select_word(matches, tok.token),
                                          tok.start, tok.end, creator)
                IN  <<link>> \o TokenLoop(toks, k + 1,
                                          existing_spans \cup {sp}, rejected_spans,
                                          index, t, creator, taken \cup {id})

\* An engine without the early return.
NothingToMatch_never(text) == FALSE

\* Whether the text fails the precondition of the engine.
NothingToMatch(text) == text.language_id = NULL \/ text.content = <<>>

\* A replacement step that deletes nothing.
ToDelete_never(existing_links, replace) == {}

\* A replacement step that deletes every link of the text.
ToDelete_every_link(existing_links, replace) ==
    IF replace THEN existing_links ELSE {}

\* A replacement step that spares the rejected links only.
ToDelete_unrejected(existing_links, replace) ==
    IF replace THEN {l \in existing_links : l.status # "rejected"} ELSE {}

\* A replacement step that deletes the suggestions of the engine only.
ToDelete_engine_rows(existing_links, replace) ==
    IF replace
    THEN {l \in existing_links : l.status = "suggested" /\ l.confidence # NULL}
    ELSE {}

\* The rows the replacement step deletes.
ToDelete(existing_links, replace) ==
    IF replace THEN {l \in existing_links : l.status = "suggested"} ELSE {}

\* suggest_links_for_text(db, text, creator_id, replace_existing_suggestions)
\* on the table `store': the table afterwards and the list returned.  `taken'
\* are the ids no new row may get.
SuggestWith(store, txts, catalog, t, creator, replace, taken) ==
    IF NothingToMatch(txts[t]) THEN [links |-> store, created |-> <<>>]
    ELSE
        LET loaded == LinksOf(store, t)
            deleted == ToDelete(loaded, replace)
            existing_links == loaded \ deleted
            existing_spans == {Span(l) : l \in existing_links}
            rejected_spans ==
                {Span(l) : l \in {x \in existing_links : x.status = "rejected"}}
            index == build_word_index(
                         WordsOfLanguage(catalog, txts[t].language_id))
            created == TokenLoop(iter_tokens(txts[t].content), 1, existing_spans,
                                 rejected_spans, index, t, creator, taken)
        IN  [links |-> (store \ deleted) \cup {created[i] : i \in 1..Len(created)},
             created |-> created]

suggest_links_for_text(store, txts, catalog, t, creator, replace) ==
    SuggestWith(store, txts, catalog, t, creator, replace, Ids(store))

\* A refresh that reports every text of the document, links or not.
RECURSIVE RefreshFrom_every_key(_, _, _, _, _, _, _)
RefreshFrom_every_key(store, txts, catalog, d, creator, k, taken) ==
    IF k > Len(TextOrder) THEN [links |-> store, created |-> <<>>, keys |-> {}]
    ELSE
        LET t == TextOrder[k]
        IN  IF DocumentOf(t) # d
            THEN RefreshFrom_every_key(store, txts, catalog, d, creator, k + 1,
                                       taken)
            ELSE
                LET r == SuggestWith(store, txts, catalog, t, creator, TRUE, taken)
                    rest == RefreshFrom_every_key(r.links, txts, catalog, d,
                                creator, k + 1, taken \cup Ids(r.links))
                IN  [links |-> rest.links,
                     created |-> r.created \o rest.created,
                     keys |-> {t} \cup rest.keys]

\* refresh_document_suggestions: the engine with replacement on every text
\* of the document from the k-th on.
RECURSIVE RefreshFrom(_, _, _, _, _, _, _)
RefreshFrom(store, txts, catalog, d, creator, k, taken) ==
    IF k > Len(TextOrder) THEN [links |-> store, created |-> <<>>, keys |-> {}]
    ELSE
        LET t == TextOrder[k]
        IN  IF DocumentOf(t) # d
            THEN RefreshFrom(store, txts, catalog, d, creator, k + 1, taken)
            ELSE
                LET r == SuggestWith(store, txts, catalog, t, creator, TRUE, taken)
                    rest == RefreshFrom(r.links, txts, catalog, d, creator, k + 1,
                                        taken \cup Ids(r.links))
                IN  [links |-> rest.links,
                     created |-> r.created \o rest.created,
                     keys |-> IF r.created # <<>> THEN {t} \cup rest.keys
                              ELSE rest.keys]

refresh_document_suggestions(store, txts, catalog, d, creator) ==
    RefreshFrom(store, txts, catalog, d, creator, 1, Ids(store))

(***************************************************************************)
(* The operations.  Each is one request (or one service call followed by   *)
(* the commit of its session), run to its end.                             *)
(***************************************************************************)
\* What lastOp records of an engine call: its arguments, the table before
\* it, the list (or the keys of the mapping) it returned, and whether the
\* same call was the operation just before.
EngineOp(name, t, replace, creator, before, created, keys, rerun) ==
    [op |-> name, text |-> t, replace |-> replace, creator |-> creator,
     before |-> before, created |-> created, keys |-> keys, code |-> "ok",
     rerun |-> rerun]

\* What lastOp records of any other request: its name and status code.
OtherOp(name, code) == [NoOp EXCEPT !.op = name, !.code = code]

\* The same call (text and flag) was the operation just before.
IsRerun(t, replace) ==
    lastOp.op = "suggest" /\ lastOp.text = t /\ lastOp.replace = replace

\* suggest_links_for_text on text t, then db.commit().
SuggestLinksForText(t, creator, replace) ==
    LET r == suggest_links_for_text(links, texts, words, t, creator, replace)
    IN  /\ links' = r.links
        /\ lastOp' = EngineOp("suggest", t, replace, creator, links, r.created,
                              {}, IsRerun(t, replace))
        /\ UNCHANGED <<texts, words, others>>

\* refresh_document_suggestions on document d, then db.commit().
RefreshDocumentSuggestions(d, creator) ==
    LET r == refresh_document_suggestions(links, texts, words, d, creator)
    IN  /\ links' = r.links
        /\ lastOp' = EngineOp("refresh", NULL, TRUE, creator, links, r.created,
                              r.keys, FALSE)
        /\ UNCHANGED <<texts, words, others>>

\* A create_text_link that never finds a row at the requested span.
SpanTaken_never(store, t, start, end) == FALSE

\* Whether create_text_link finds a row at the requested span.
SpanTaken(store, t, start, end) ==
    \E l \in store : l.text_id = t /\ l.start_char = start /\ l.end_char = end

\* A create_text_link that stores every row as a suggestion.
ManualLink_as_suggested(id, t, word_id, start, end, status, notes, user) ==
    [id |-> id, text_id |-> t, word_id |-> word_id,
     start_char |-> start, end_char |-> end,
     status |-> "suggested", confidence |-> NULL, notes |-> notes,
     created_by_id |-> user, verified_by_id |-> NULL, verified_at |-> NULL]

\* The row create_text_link builds from the request.
ManualLink(id, t, word_id, start, end, status, notes, user) ==
    [id |-> id, text_id |-> t, word_id |-> word_id,
     start_char |-> start, end_char |-> end,
     status |-> status, confidence |-> NULL, notes |-> notes,
     created_by_id |-> user,
     verified_by_id |-> IF status = "confirmed" THEN user ELSE NULL,
     verified_at |-> IF status = "confirmed" THEN UtcNow ELSE NULL]

\* POST /texts/{text_id}/links
CreateTextLink(t, word_id, start, end, status, notes) ==
    /\ \E i \in 1..Len(words) : words[i] = word_id
    /\ IF SpanTaken(links, t, start, end)
       THEN /\ lastOp' = OtherOp("create", "400")
            /\ UNCHANGED links
       ELSE LET link == ManualLink(FreshId(t, start, end, Ids(links)), t, word_id,
                                   start, end, status, notes, CurrentUser)
            IN  /\ links' = links \cup {link}
                /\ lastOp' = OtherOp("create", "ok")
    /\ UNCHANGED <<texts, words, others>>

\* An update_text_link that never clears the verification fields.
UpdatedLink_keeps_verification(l, status, notes, word_id, user) ==
    LET l1 == IF notes # NULL THEN [l EXCEPT !.notes = notes] ELSE l
        l2 == IF word_id # NULL THEN [l1 EXCEPT !.word_id = word_id] ELSE l1
    IN  IF status = NULL THEN l2
        ELSE IF status \in {"confirmed", "rejected"}
             THEN [l2 EXCEPT !.status = status, !.verified_by_id = user,
                             !.verified_at = UtcNow]
             ELSE [l2 EXCEPT !.status = status]

\* The row update_text_link leaves: notes, word and status are each changed
\* only when the request carries them (NULL: not carried).
UpdatedLink(l, status, notes, word_id, user) ==
    LET l1 == IF notes # NULL THEN [l EXCEPT !.notes = notes] ELSE l
        l2 == IF word_id # NULL THEN [l1 EXCEPT !.word_id = word_id] ELSE l1
    IN  IF status = NULL THEN l2
        ELSE IF status \in {"confirmed", "rejected"}
             THEN [l2 EXCEPT !.status = status, !.verified_by_id = user,
                             !.verified_at = UtcNow]
             ELSE [l2 EXCEPT !.status = status, !.verified_by_id = NULL,
                             !.verified_at = NULL]

\* PATCH /texts/{text_id}/links/{link_id}
UpdateTextLink(t, id, status, notes, word_id) ==
    /\ word_id # NULL => \E i \in 1..Len(words) : words[i] = word_id
    /\ \E l \in links :
          /\ l.id = id /\ l.text_id = t
          /\ links' = (links \ {l})
                         \cup {UpdatedLink(l, status, notes, word_id, CurrentUser)}
    /\ lastOp' = OtherOp("other", "ok")
    /\ UNCHANGED <<texts, words, others>>

\* A delete_text_link that answers and leaves the row in the table.
DeleteTextLink_keeps_row(t, id) ==
    /\ \E l \in links : l.id = id /\ l.text_id = t
    /\ lastOp' = OtherOp("other", "ok")
    /\ UNCHANGED <<texts, words, links, others>>

\* DELETE /texts/{text_id}/links/{link_id}
DeleteTextLink(t, id) ==
    /\ \E l \in links :
          /\ l.id = id /\ l.text_id = t
          /\ links' = links \ {l}
    /\ lastOp' = OtherOp("other", "ok")
    /\ UNCHANGED <<texts, words, others>>

\* PUT /documents/{document_id}/texts/{text_id}: the fields the request
\* carries are set (text_data is a function from the names of the fields
\* carried to their values; a language carried may be null).  Only the owner
\* of a text (or an admin) gets past require_resource_owner.
UpdateText(t, text_data) ==
    /\ TextOwner(t) = CurrentUser
    /\ texts' = [texts EXCEPT
           ![t] = [f \in DOMAIN @ |->
                      IF f \in DOMAIN text_data THEN text_data[f] ELSE @[f]]]
    /\ lastOp' = OtherOp("other", "ok")
    /\ UNCHANGED <<words, links, others>>

\* POST /words: a new row, which a query yields after the older rows.
CreateWord(w) ==
    /\ \A i \in 1..Len(words) : words[i] # w
    /\ words' = Append(words, w)
    /\ lastOp' = OtherOp("other", "ok")
    /\ UNCHANGED <<texts, links, others>>

\* DELETE /words/{word_id} (by an admin).  text_word_links.word_id is a
\* foreign key that is not nullable: a word some link references stays.
DeleteWord(w) ==
    /\ \E i \in 1..Len(words) : words[i] = w
    /\ \A l \in links : l.word_id # w
    /\ LET Other(x) == x # w
       IN  words' = SelectSeq(words, Other)
    /\ lastOp' = OtherOp("other", "ok")
    /\ UNCHANGED <<texts, links, others>>

(***************************************************************************)
(* Properties.  An engine call is judged in the state it leaves: lastOp    *)
(* holds its arguments, the table before it and the list it returned.      *)
(***************************************************************************)
SuggestCall == lastOp.op = "suggest"
\* The links the last engine call returned, as a set.
Returned == {lastOp.created[i] : i \in 1..Len(lastOp.created)}
\* The links text t had before the last engine call, by status.
LinksBefore(t, statuses) ==
    {l \in lastOp.before : l.text_id = t /\ l.status \in statuses}
Reviewed == {"confirmed", "rejected"}
\* Text t has a language and content.
HasLanguageAndContent(t) ==
    texts[t].language_id # NULL /\ Len(texts[t].content) > 0
\* The slice content[start_char:end_char] of the text of link l.
Slice(l) == SubSeq(texts[l.text_id].content, l.start_char + 1, l.end_char)
\* The tokens of text t a word of the catalog matches.
MatchedTokens(t) ==
    LET toks == iter_tokens(texts[t].content)
        index == build_word_index(WordsOfLanguage(words, texts[t].language_id))
    IN  {toks[k] : k \in {i \in 1..Len(toks) :
                Candidates(index, strip_diacritics(toks[i].token)) # <<>>}}

\* C1: Idempotence without replacement.  When suggest_links_for_text runs
\* with replace_existing_suggestions = False right after the same call on the
\* same text, with nothing changed in between, the second call returns the
\* empty list and leaves the stored links as they were.
C1_Idempotence ==
    (SuggestCall /\ ~lastOp.replace /\ lastOp.rerun)
        => (lastOp.created = <<>> /\ links = lastOp.before)

\* A second call without replacement on a text with a language, content and
\* a suggestion of the engine stored for a token the catalog matches.
C1_Witness ==
    /\ SuggestCall /\ ~lastOp.replace /\ lastOp.rerun
    /\ HasLanguageAndContent(lastOp.text)
    /\ \E l \in LinksOf(links, lastOp.text), tok \in MatchedTokens(lastOp.text) :
          /\ l.status = "suggested" /\ l.created_by_id = lastOp.creator
          /\ Span(l) = <<tok.start, tok.end>>

\* C2: Rejection permanence.  Whatever the flag and the catalog, a call of
\* suggest_links_for_text on a text creates no link at the span of a link of
\* that text stored as rejected, and the rejected link is still stored, as
\* rejected, after the call.
C2_RejectionPermanence ==
    SuggestCall =>
        \A l \in LinksBefore(lastOp.text, {"rejected"}) :
            /\ l \in links
            /\ \A n \in Returned : Span(n) # Span(l)

\* A call with replacement on a text with a rejected link at the span of a
\* token the catalog matches; the call created a link elsewhere.
C2_Witness ==
    /\ SuggestCall /\ lastOp.replace
    /\ lastOp.created # <<>>
    /\ \E l \in LinksBefore(lastOp.text, {"rejected"}),
          tok \in MatchedTokens(lastOp.text) : Span(l) = <<tok.start, tok.end>>

\* C3: Span uniqueness.  In every reachable state no two stored links have
\* the same text, start_char and end_char.
C3_SpanUniqueness ==
    \A l1 \in links, l2 \in links :
        (l1.text_id = l2.text_id /\ Span(l1) = Span(l2)) => l1 = l2

\* create_text_link has just refused a span that is taken, on a text that
\* holds a link of the engine and a link made by hand.
C3_Witness ==
    /\ lastOp.op = "create" /\ lastOp.code = "400"
    /\ \E l1 \in links, l2 \in links :
          /\ l1.text_id = l2.text_id
          /\ l1.confidence = NULL /\ l2.confidence # NULL

\* C4: Reviewed links are untouched by the engine.  A call of
\* suggest_links_for_text, with either flag, leaves every link of the text
\* that was confirmed or rejected before the call stored with the same id,
\* word, span, status, notes and verification fields.
C4_ReviewedUntouched ==
    SuggestCall =>
        \A l \in LinksBefore(lastOp.text, Reviewed) :
            \E m \in links :
                /\ m.id = l.id /\ m.text_id = l.text_id /\ m.word_id = l.word_id
                /\ Span(m) = Span(l) /\ m.status = l.status /\ m.notes = l.notes
                /\ m.verified_by_id = l.verified_by_id
                /\ m.verified_at = l.verified_at

\* A call with replacement that deleted a suggestion and created one, on a
\* text with a confirmed link that carries a note.
C4_Witness ==
    /\ SuggestCall /\ lastOp.replace
    /\ lastOp.created # <<>>
    /\ LinksBefore(lastOp.text, {"suggested"}) # {}
    /\ \E l \in LinksBefore(lastOp.text, {"confirmed"}) :
          l.notes # NULL /\ l.verified_by_id # NULL

\* The ids of the links stored as suggested.
SuggestedIds(store) == {l.id : l \in {x \in store : x.status = "suggested"}}
\* A row as the engine inserts it: it carries a confidence.
InsertedByEngine(l) == l.confidence # NULL
\* Some request of create_text_link, or of update_text_link, is served.
SomeCreateTextLink ==
    \E t \in TextIds, w \in ManualWordIds, sp \in ManualSpans,
       status \in Statuses, notes \in ManualNotes :
        CreateTextLink(t, w, sp[1], sp[2], status, notes)
SomeUpdateTextLink ==
    \E l \in links, status \in Statuses \cup {NULL},
       notes \in UpdateNotes, w \in UpdateWordIds :
        UpdateTextLink(l.text_id, l.id, status, notes, w)

C6_Replacement ==
    (SuggestCall /\ lastOp.replace /\ HasLanguageAndContent(lastOp.text))
        => /\ {l \in LinksOf(links, lastOp.text) : l.status = "suggested"}
                 = Returned
           /\ LinksBefore(lastOp.text, {"suggested"}) \cap links = {}
           /\ LinksBefore(lastOp.text, Reviewed) \subseteq links

\* A call with replacement on a text that held a suggestion made by hand, a
\* suggestion of the engine and a reviewed link; the call returned a link.
C6_Witness ==
    /\ SuggestCall /\ lastOp.replace /\ HasLanguageAndContent(lastOp.text)
    /\ lastOp.created # <<>>
    /\ \E l \in LinksBefore(lastOp.text, {"suggested"}) : ~InsertedByEngine(l)
    /\ \E l \in LinksBefore(lastOp.text, Reviewed) : InsertedByEngine(l)

\* C7: Precondition no-op.  On a text without a language or with empty
\* content suggest_links_for_text returns the empty list and leaves the
\* stored links unchanged, whatever the flag: with replacement too the
\* suggested links of the text stay.
C7_PreconditionNoOp ==
    (SuggestCall /\ ~HasLanguageAndContent(lastOp.text))
        => (lastOp.created = <<>> /\ links = lastOp.before)

\* A call with replacement on a text with content, without a language, that
\* holds a suggested link.
C7_Witness ==
    /\ SuggestCall /\ lastOp.replace
    /\ texts[lastOp.text].language_id = NULL
    /\ texts[lastOp.text].content # <<>>
    /\ \E l \in LinksOf(links, lastOp.text) : l.status = "suggested"

\* C8: Every link suggest_links_for_text returns has status suggested,
\* confidence 1.0, the creator_id of the call as created_by_id, the id of the
\* text as text_id, no notes, no verified_by_id, no verified_at, and the span
\* of one token of the content of the text.
C8_ReturnedFields ==
    SuggestCall =>
        \A l \in Returned :
            /\ l.status = "suggested" /\ l.confidence = "1.0"
            /\ l.created_by_id = lastOp.creator
            /\ l.text_id = lastOp.text
            /\ l.notes = NULL /\ l.verified_by_id = NULL /\ l.verified_at = NULL
            /\ \E k \in 1..Len(iter_tokens(texts[lastOp.text].content)) :
                  LET tok == iter_tokens(texts[lastOp.text].content)[k]
                  IN  Span(l) = <<tok.start, tok.end>>

\* A call that returned a link for each of two tokens.
C8_Witness ==
    /\ SuggestCall
    /\ Len(lastOp.created) >= 2

\* C9: Span correctness.  For every link suggest_links_for_text returns, the
\* normalized key of content[start_char:end_char] equals the normalized key
\* of the surface form of the word of the link.
C9_SpanCorrectness ==
    SuggestCall =>
        \A l \in Returned :
            strip_diacritics(Slice(l)) = strip_diacritics(WordTable[l.word_id].word)

\* A call that returned a link whose slice of the content differs from the
\* surface form of its word.
C9_Witness ==
    /\ SuggestCall
    /\ \E l \in Returned : Slice(l) # WordTable[l.word_id].word

\* C10: Span bounds.  In every reachable state every stored link satisfies
\* 0 <= start_char < end_char <= len(content of its text).
C10_SpanBounds ==
    \A l \in links :
        /\ 0 <= l.start_char
        /\ l.start_char < l.end_char
        /\ l.end_char <= Len(texts[l.text_id].content)

Next ==
    \/ \E t \in TextIds, creator \in Creators, replace \in BOOLEAN :
          SuggestLinksForText(t, creator, replace)
    \/ \E d \in DocumentIds, creator \in Creators :
          RefreshDocumentSuggestions(d, creator)
    \/ \E t \in TextIds, w \in ManualWordIds, sp \in ManualSpans,
          status \in Statuses, notes \in ManualNotes :
          CreateTextLink(t, w, sp[1], sp[2], status, notes)
    \/ \E l \in links, status \in Statuses \cup {NULL},
          notes \in UpdateNotes, w \in UpdateWordIds :
          UpdateTextLink(l.text_id, l.id, status, notes, w)
    \/ \E l \in links : DeleteTextLink(l.text_id, l.id)
    \/ \E t \in TextIds, text_data \in TextUpdates : UpdateText(t, text_data)
    \/ \E w \in WordIds : CreateWord(w)
    \/ \E w \in DeletableWordIds : DeleteWord(w)

Spec == Init /\ [][Next]_vars

(***************************************************************************)
(* A rejected link under the operations that do not delete it: the tables  *)
(* start with one link, suggested by the engine for the first token of t1  *)
(* and rejected by the contributor, and delete_text_link is never called.  *)
(***************************************************************************)
RejectedLink ==
    UpdatedLink(NewSuggestion(FreshId("t1", 0, 1, {}), "t1", "w1", 0, 1, "u2"),
                "rejected", NULL, NULL, CurrentUser)

InitRejected ==
    /\ texts = [t \in TextIds |->
                   [content |-> IF t = "t1" THEN LongContent ELSE <<>>,
                    language_id |-> "L1"]]
    /\ words = <<"w3", "w1">>
    /\ links = {RejectedLink}
    /\ lastOp = NoOp
    /\ sessions = [r \in Requests |-> NoSession]
    /\ call = NoCall

NextRejected ==
    \/ \E t \in TextIds, creator \in Creators, replace \in BOOLEAN :
          SuggestLinksForText(t, creator, replace)
    \/ \E d \in DocumentIds, creator \in Creators :
          RefreshDocumentSuggestions(d, creator)
    \/ \E t \in TextIds, w \in ManualWordIds, sp \in ManualSpans,
          status \in Statuses, notes \in ManualNotes :
          CreateTextLink(t, w, sp[1], sp[2], status, notes)
    \/ \E l \in links, status \in Statuses \cup {NULL},
          notes \in UpdateNotes, w \in UpdateWordIds :
          UpdateTextLink(l.text_id, l.id, status, notes, w)

SpecRejected == InitRejected /\ [][NextRejected]_vars

\* The last operation was a call of the engine, on one text or on a document.
EngineCall == lastOp.op \in {"suggest", "refresh"}

UnmatchedFirstContent == <<"b", "space", "a">>
EngineContents ==
    [t \in TextIds |->
        IF t = "t1" THEN {LongContent, UnmatchedFirstContent} ELSE {<<"a">>}]
EngineWordIds == {"w1", "w2", "w4"}
\* The sequences of distinct words of the set ws.
Catalogs(ws) ==
    {c \in UNION {[1..n -> ws] : n \in 0..Cardinality(ws)} :
        \A i \in DOMAIN c, j \in DOMAIN c : c[i] = c[j] => i = j}

InitEngine ==
    /\ texts \in {f \in [TextIds -> [content : UNION {EngineContents[t] : t \in TextIds},
                                     language_id : {"L1"}]] :
                     \A t \in TextIds : f[t].content \in EngineContents[t]}
    /\ words \in Catalogs(EngineWordIds)
    /\ links = {}
    /\ lastOp = NoOp
    /\ sessions = [r \in Requests |-> NoSession]
    /\ call = NoCall

NextEngine ==
    \/ \E t \in TextIds, creator \in Creators, replace \in BOOLEAN :
          SuggestLinksForText(t, creator, replace)
    \/ \E d \in DocumentIds, creator \in Creators :
          RefreshDocumentSuggestions(d, creator)
    \/ \E l \in links, status \in Statuses \cup {NULL},
          notes \in UpdateNotes, w \in UpdateWordIds :
          UpdateTextLink(l.text_id, l.id, status, notes, w)

SpecEngine == InitEngine /\ [][NextEngine]_vars

\* The texts of the document refreshed (the model has one document).
TextsRefreshed == {t \in TextIds : DocumentOf(t) \in DocumentIds}
\* The links the last engine call created for text t.
ReturnedFor(t) == {n \in Returned : n.text_id = t}

\* C12: refresh_document_suggestions runs the engine with replacement once
\* on each text of the document: for each of them that has a language and
\* content the suggested links stored afterwards are the links created for
\* it, its old suggestions are gone and its reviewed links stay (the links of
\* a text without language or content stay as they are).  The mapping
\* returned has as keys exactly the texts for which a link was created; a
\* text without a new link is no key.
C12_RefreshMapping ==
    lastOp.op = "refresh" =>
        /\ lastOp.keys = {t \in TextsRefreshed : ReturnedFor(t) # {}}
        /\ Cardinality(Returned) = Len(lastOp.created)
        /\ \A t \in TextsRefreshed :
              IF HasLanguageAndContent(t)
              THEN /\ {l \in LinksOf(links, t) : l.status = "suggested"}
                         = ReturnedFor(t)
                   /\ LinksBefore(t, {"suggested"}) \cap links = {}
                   /\ LinksBefore(t, Reviewed) \subseteq links
              ELSE LinksOf(links, t) = LinksOf(lastOp.before, t)

\* A refresh that created a link for one text and none for the other, whose
\* only token has a reviewed link; old suggestions were replaced.
C12_Witness ==
    /\ lastOp.op = "refresh"
    /\ \E t1 \in TextsRefreshed, t2 \in TextsRefreshed :
          /\ t1 \in lastOp.keys /\ t2 \notin lastOp.keys
          /\ LinksBefore(t1, {"suggested"}) # {}
          /\ LinksBefore(t2, Reviewed) # {}

(***************************************************************************)
(* POST /texts/{text_id}/links/suggest as the database sees it.  A request *)
(* has a session of its own (get_db); its statements run one at a time,    *)
(* each on the rows committed by then (read committed): the query of the   *)
(* links, the flush of the deletions, the query of the words, and the      *)
(* commit, which sends the insertions.  Until the commit the table `links' *)
(* holds none of it; when the request fails, closing the session rolls the *)
(* flushed deletions back.                                                 *)
(***************************************************************************)
InProgress(s) == s.pc \in {"loaded", "flushed", "computed"}

\* The rows of the table that requests other than r have deleted and not
\* yet committed: the database keeps them locked until those requests end.
LockedFor(r) ==
    {l \in links : \E x \in Requests \ {r} :
        /\ sessions[x].pc \in {"flushed", "computed"}
        /\ l.id \in Ids(sessions[x].deleted)}

\* The ids no new row of request r may get: uuid4 repeats no id.
TakenFor(r) ==
    Ids(links) \cup UNION {Ids(sessions[x].loaded) \cup
                           {sessions[x].created[i].id :
                               i \in 1..Len(sessions[x].created)} :
                           x \in Requests}

\* _get_text_or_404, then the first statements of suggest_links_for_text:
\* the early return, or the query of the links of the text.
LoadLinks(r, t) ==
    /\ ~InProgress(sessions[r])
    /\ sessions' = [sessions EXCEPT ![r] =
           IF NothingToMatch(texts[t])
           THEN [NoSession EXCEPT !.pc = "done", !.text = t, !.code = "ok"]
           ELSE [NoSession EXCEPT !.pc = "loaded", !.text = t,
                                  !.loaded = LinksOf(links, t)]]
    /\ UNCHANGED <<texts, words, links, lastOp, call>>

\* A request without db.flush(): the deletions stay in the session, and the
\* commit sends the insertions before them.
FlushDeletions_unsent(r) ==
    /\ sessions[r].pc = "loaded"
    /\ sessions' = [sessions EXCEPT ![r].pc = "flushed"]
    /\ UNCHANGED <<texts, words, links, lastOp, call>>

\* db.delete of each suggested link loaded, then db.flush().  A row another
\* request has deleted and not committed makes the statement wait; a row
\* that is gone by now is deleted to no effect.
FlushDeletions(r) ==
    /\ sessions[r].pc = "loaded"
    /\ ToDelete(sessions[r].loaded, TRUE) \cap LockedFor(r) = {}
    /\ sessions' = [sessions EXCEPT ![r].pc = "flushed",
                                    ![r].deleted =
                                        ToDelete(sessions[r].loaded, TRUE)]
    /\ UNCHANGED <<texts, words, links, lastOp, call>>

\* The query of the words and the loop over the tokens, on the links loaded:
\* the links to insert wait in the session for the commit.
QueryWords(r) ==
    /\ sessions[r].pc = "flushed"
    /\ sessions' = [sessions EXCEPT
           ![r].pc = "computed",
           ![r].created = SuggestWith(sessions[r].loaded, texts, words,
                                      sessions[r].text, CurrentUser, TRUE,
                                      TakenFor(r)).created]
    /\ UNCHANGED <<texts, words, links, lastOp, call>>

\* A constraint that lets every row in.
UniqueViolation_never(store, rows) == FALSE

\* uq_text_word_links_unique_span: some row to insert has the text and the
\* span of a row of the table.
UniqueViolation(store, rows) ==
    \E n \in rows, l \in store : n.text_id = l.text_id /\ Span(n) = Span(l)

\* A request whose flushed deletions stay after it has failed.
Persisted_without_rollback(store, s, committed) ==
    LET kept == {l \in store : l.id \notin Ids(s.deleted)}
    IN  IF committed THEN kept \cup {s.created[i] : i \in 1..Len(s.created)}
        ELSE kept

\* The table once the request of session s has ended: with its deletions
\* and insertions when it committed, as it was when it did not.
Persisted(store, s, committed) ==
    IF committed
    THEN {l \in store : l.id \notin Ids(s.deleted)}
            \cup {s.created[i] : i \in 1..Len(s.created)}
    ELSE store

\* The request of session s fails: what was flushed is rolled back.
Failed(s, code) == [s EXCEPT !.pc = "failed", !.code = code, !.deleted = {}]

\* The query of the words fails: the exception leaves the endpoint, get_db
\* closes the session, and the request returns no link.
CatalogFails(r) ==
    /\ sessions[r].pc = "flushed"
    /\ links' = Persisted(links, sessions[r], FALSE)
    /\ sessions' = [sessions EXCEPT ![r] =
                       [Failed(@, "catalog_failed") EXCEPT !.created = <<>>]]
    /\ UNCHANGED <<texts, words, lastOp, call>>

\* db.commit(): the insertions are sent, then the transaction commits.  An
\* insertion at the span of a row another request has deleted and not
\* committed waits for that request; one at the span of a row of the table
\* fails, and the transaction with it.
Commit(r) ==
    LET s == sessions[r]
        rows == {s.created[i] : i \in 1..Len(s.created)}
        kept == {l \in links : l.id \notin Ids(s.deleted)}
    IN  /\ s.pc = "computed"
        /\ ~UniqueViolation(LockedFor(r), rows)
        /\ IF UniqueViolation(kept, rows)
           THEN /\ links' = Persisted(links, s, FALSE)
                /\ sessions' = [sessions EXCEPT
                                   ![r] = Failed(@, "unique_violation")]
           ELSE /\ links' = Persisted(links, s, TRUE)
                /\ sessions' = [sessions EXCEPT ![r].pc = "done",
                                                ![r].code = "ok"]
        /\ UNCHANGED <<texts, words, lastOp, call>>

\* The tables the requests start from: the texts of Init, a catalog with a
\* word of the language of the texts, no links.
InitRequests ==
    /\ texts = [t \in TextIds |->
                   [content |-> IF t = "t1" THEN LongContent ELSE <<>>,
                    language_id |-> "L1"]]
    /\ words = <<"w3", "w1">>
    /\ links = {}
    /\ lastOp = NoOp
    /\ sessions = [r \in Requests |-> NoSession]
    /\ call = NoCall

\* One request at a time, with a catalog that changes and may fail.
NextFailure ==
    \/ \E t \in TextIds : LoadLinks("r1", t)
    \/ FlushDeletions("r1")
    \/ QueryWords("r1")
    \/ CatalogFails("r1")
    \/ Commit("r1")
    \/ \E w \in WordIds : CreateWord(w)
    \/ \E w \in DeletableWordIds : DeleteWord(w)

SpecFailure == InitRequests /\ [][NextFailure]_vars

\* Requests side by side, their statements interleaved.
NextConcurrent ==
    \/ \E r \in Requests, t \in TextIds : LoadLinks(r, t)
    \/ \E r \in Requests : FlushDeletions(r)
    \/ \E r \in Requests : QueryWords(r)
    \/ \E r \in Requests : CatalogFails(r)
    \/ \E r \in Requests : Commit(r)

SpecConcurrent == InitRequests /\ [][NextConcurrent]_vars

\* C13: Atomic failure.  When the query of the words fails in a regenerate
\* request, after the old suggestions were deleted and flushed, the request
\* returns no link, and once it has ended the links stored for the text are
\* exactly those stored before it.
C13_AtomicFailure ==
    \A r \in Requests :
        sessions[r].code = "catalog_failed" =>
            /\ sessions[r].pc = "failed"
            /\ sessions[r].created = <<>>
            /\ LinksOf(links, sessions[r].text) = sessions[r].loaded

\* A request that failed at the query of the words after it had deleted a
\* suggestion of the text.
C13_Witness ==
    \E r \in Requests :
        /\ sessions[r].code = "catalog_failed"
        /\ \E l \in sessions[r].loaded : l.status = "suggested"

\* C14: Uniqueness backstop.  However the statements of two regenerate
\* requests interleave, the table never holds two links with the same text,
\* start_char and end_char; of a request whose commit met the constraint no
\* link is in the table.
C14_UniqueUnderConcurrency ==
    /\ \A l1 \in links, l2 \in links :
          (l1.text_id = l2.text_id /\ Span(l1) = Span(l2)) => l1.id = l2.id
    /\ \A r \in Requests :
          sessions[r].code = "unique_violation" =>
              \A i \in 1..Len(sessions[r].created) :
                  sessions[r].created[i] \notin links

\* Two requests computed the same span as free; one committed its link, the
\* commit of the other met the constraint.
C14_Witness ==
    \E r1 \in Requests, r2 \in Requests :
        /\ sessions[r1].code = "ok" /\ sessions[r1].pc = "done"
        /\ sessions[r2].code = "unique_violation"
        /\ \E i \in 1..Len(sessions[r1].created),
              j \in 1..Len(sessions[r2].created) :
              /\ sessions[r1].created[i] \in links
              /\ Span(sessions[r1].created[i]) = Span(sessions[r2].created[j])
              /\ sessions[r1].created[i].text_id = sessions[r2].created[j].text_id

\* C15: Verification fields only on reviewed links.  In every reachable
\* state a stored link with verified_by_id or verified_at set has status
\* confirmed or rejected; a suggested link has both unset.
C15_VerifiedOnlyReviewed ==
    \A l \in links :
        (l.verified_by_id # NULL \/ l.verified_at # NULL)
            => l.status \in Reviewed

\* update_text_link has just been served; the table holds a rejected link
\* and a confirmed link with the verification fields set, and a suggested
\* link of the engine.
C15_Witness ==
    /\ lastOp.op = "other"
    /\ \E l1 \in links, l2 \in links, l3 \in links :
          /\ l1.status = "rejected" /\ l1.verified_by_id # NULL
          /\ l2.status = "confirmed" /\ l2.verified_at # NULL
          /\ l3.status = "suggested" /\ InsertedByEngine(l3)

(***************************************************************************)
(* The functions of the engine on their own: _strip_diacritics and         *)
(* _iter_tokens applied to every string of at most MaxLen characters.      *)
(***************************************************************************)
MaxLen == 3
\* The strings of at most MaxLen characters of the set cs.
Strings(cs) == UNION {[1..n -> cs] : n \in 0..MaxLen}
\* The characters of the strings to normalize and of the contents to scan.
NormChars == {"a", "A", "aacute", "Aacute", "acute", "l", "lstroke"}
TokenChars ==
    {"a", "one", "underscore", "apos", "hyphen", "space", "period", "acute"}

\* One call in a behaviour: the functions keep no state between calls.
Normalize(value) ==
    /\ call = NoCall
    /\ call' = [fn |-> "strip_diacritics", arg |-> value,
                result |-> strip_diacritics(value)]
    /\ UNCHANGED <<texts, words, links, lastOp, sessions>>

Tokenize(content) ==
    /\ call = NoCall
    /\ call' = [fn |-> "iter_tokens", arg |-> content,
                result |-> iter_tokens(content)]
    /\ UNCHANGED <<texts, words, links, lastOp, sessions>>

NextPure ==
    \/ \E value \in Strings(NormChars) : Normalize(value)
    \/ \E content \in Strings(TokenChars) : Tokenize(content)

SpecPure == Init /\ [][NextPure]_vars

\* The letter a character writes, whatever its case and its diacritic.
BaseLetter(c) ==
    CASE c \in {"a", "A", "aacute", "Aacute"} -> "a"
      [] c = "lstroke" -> "l"
      [] OTHER -> c
\* The letter a character writes, whatever its case and the combining marks
\* of its canonical decomposition.
DecomposedLetter(c) == IF c \in {"a", "A", "aacute", "Aacute"} THEN "a" ELSE c
\* The letters of a string, in order, combining marks left out.
BaseLetters(x) ==
    LET ux == SelectSeq(x, NotMark)
    IN  [i \in 1..Len(ux) |-> BaseLetter(ux[i])]
DecomposedLetters(x) ==
    LET ux == SelectSeq(x, NotMark)
    IN  [i \in 1..Len(ux) |-> DecomposedLetter(ux[i])]

SameKeyPlaces(t, token) ==
    {i \in 1..Len(words) :
        /\ WordTable[words[i]].language_id = texts[t].language_id
        /\ strip_diacritics(WordTable[words[i]].word) = strip_diacritics(token)}
SameFormPlaces(t, token) ==
    {i \in SameKeyPlaces(t, token) :
        casefold(WordTable[words[i]].word) = casefold(token)}
\* The least of a set of places.
First(places) == CHOOSE i \in places : \A j \in places : i <= j

\* C17: Homograph tie-break.  The word of a link the engine creates is the
\* first word of the catalog, among those that share the key of the token,
\* whose surface form is the token up to case; when there is none it is the
\* first word of the catalog that shares the key of the token.
C17_TieBreak ==
    EngineCall =>
        \A n \in Returned :
            LET same_key == SameKeyPlaces(n.text_id, Slice(n))
                same_form == SameFormPlaces(n.text_id, Slice(n))
            IN  /\ same_key # {}
                /\ n.word_id = IF same_form # {} THEN words[First(same_form)]
                               ELSE words[First(same_key)]

\* A call that created a link to a word that is the token up to case and
\* is not the first word of the catalog with the key of the token.
C17_Witness ==
    /\ EngineCall
    /\ \E n \in Returned :
          /\ SameFormPlaces(n.text_id, Slice(n)) # {}
          /\ n.word_id # words[First(SameKeyPlaces(n.text_id, Slice(n)))]

\* The links text t keeps after the replacement step of the last call.
KeptLinks(t) ==
    LinksBefore(t, Statuses)
        \ (IF lastOp.replace THEN LinksBefore(t, {"suggested"}) ELSE {})
\* The links the last call created at the span of token tok.
CreatedAt(tok) == {n \in Returned : Span(n) = <<tok.start, tok.end>>}
\* Some word of the catalog, of the language of text t, has the key of tok.
HasCatalogWord(t, tok) == SameKeyPlaces(t, tok.token) # {}

\* C18: Match completeness.  Within one call on a text with a language and
\* content, each token whose span holds no link after the replacement step
\* and whose key is the key of a catalog word of the language gets exactly
\* one link at its span; a token without such a word gets no link, the call
\* ends without error, and the tokens after it are treated the same way.
C18_MatchCompleteness ==
    (SuggestCall /\ HasLanguageAndContent(lastOp.text)) =>
        LET t == lastOp.text
            toks == iter_tokens(texts[t].content)
        IN  /\ lastOp.code = "ok"
            /\ \A k \in 1..Len(toks) :
                  /\ ( /\ HasCatalogWord(t, toks[k])
                       /\ \A l \in KeptLinks(t) :
                             Span(l) # <<toks[k].start, toks[k].end>> )
                        => Cardinality(CreatedAt(toks[k])) = 1
                  /\ ~HasCatalogWord(t, toks[k]) => CreatedAt(toks[k]) = {}

\* A call whose text has a token without a catalog word and, after it, a
\* token with one at a free span: the call linked the later token.
C18_Witness ==
    /\ SuggestCall /\ HasLanguageAndContent(lastOp.text)
    /\ LET toks == iter_tokens(texts[lastOp.text].content)
       IN  \E j \in 1..Len(toks), k \in 1..Len(toks) :
              /\ j < k
              /\ ~HasCatalogWord(lastOp.text, toks[j])
              /\ CreatedAt(toks[j]) = {}
              /\ Cardinality(CreatedAt(toks[k])) = 1

\* The result of the last call of _iter_tokens, as a set of triples.
TokenizeCall == call.fn = "iter_tokens"
Yielded == {call.result[i] : i \in 1..Len(call.result)}
\* The characters the specification lets a token hold: letters, digits,
\* apostrophes and hyphens.
TokenCharacters == Letters \cup Digits \cup {"apos", "hyphen"}

\* C19: Tokenizer spans.  Every triple (token, start, end) _iter_tokens
\* yields satisfies 0 <= start < end <= len(content) and token =
\* content[start:end], and every character of the token is a letter, a
\* digit, an apostrophe or a hyphen: no whitespace and no other punctuation
\* lies inside a token.
C19_TokenizerSpans ==
    TokenizeCall =>
        \A tok \in Yielded :
            /\ 0 <= tok.start /\ tok.start < tok.end
            /\ tok.end <= Len(call.arg)
            /\ tok.token = SubSeq(call.arg, tok.start + 1, tok.end)
            /\ \A i \in (tok.start + 1)..tok.end :
                  call.arg[i] \in TokenCharacters

\* C20, as the specification states it: the character before the start of
\* a token and the character at its end, when they exist, are no letter,
\* digit, apostrophe or hyphen.
C20_TokenMaximality ==
    TokenizeCall =>
        \A tok \in Yielded :
            /\ tok.start > 0 => call.arg[tok.start] \notin TokenCharacters
            /\ tok.end < Len(call.arg) =>
                  call.arg[tok.end + 1] \notin TokenCharacters

\* The characters from offset a up to offset b (exclusive) of the content of
\* the last call are all of the class [\w'-].
RunBetween(a, b) == \A i \in (a + 1)..b : call.arg[i] \in ClassChars

\* C20: Token maximality.  Every token _iter_tokens yields starts and ends
\* with a word character (\w) and consists of characters of the class
\* [\w'-]; the characters of that class next to it, before its start and
\* from its end on, are apostrophes and hyphens only, so that the token is
\* the part from the first to the last word character of a maximal run.
C20_MaximalBetweenWordCharacters ==
    TokenizeCall =>
        \A tok \in Yielded :
            /\ tok.start < tok.end
            /\ call.arg[tok.start + 1] \in WordChars
            /\ call.arg[tok.end] \in WordChars
            /\ RunBetween(tok.start, tok.end)
            /\ \A a \in 0..(tok.start - 1) :
                  RunBetween(a, tok.start) => call.arg[a + 1] \notin WordChars
            /\ \A b \in (tok.end + 1)..Len(call.arg) :
                  RunBetween(tok.end, b) => call.arg[b] \notin WordChars

\* A call that yielded a token with a hyphen or an apostrophe right after
\* its end.
C20_Witness ==
    /\ TokenizeCall
    /\ \E tok \in Yielded :
          /\ tok.end < Len(call.arg)
          /\ call.arg[tok.end + 1] \in {"apos", "hyphen"}

(***************************************************************************)
(* The engine on a content with a hyphenated token: "a-a a" is the tokens  *)
(* "a-a" and "a"; the catalog lists the words "a" and "a-a" in some order. *)
(***************************************************************************)
HyphenatedContent == <<"a", "hyphen", "a", "space", "a">>
OrderWordIds == {"w1", "w5"}

InitOrder ==
    /\ texts = [t \in TextIds |->
                   [content |-> IF t = "t1" THEN HyphenatedContent ELSE <<"a">>,
                    language_id |-> "L1"]]
    /\ words \in Catalogs(OrderWordIds)
    /\ links = {}
    /\ lastOp = NoOp
    /\ sessions = [r \in Requests |-> NoSession]
    /\ call = NoCall

NextOrder ==
    \/ \E t \in TextIds, creator \in Creators, replace \in BOOLEAN :
          SuggestLinksForText(t, creator, replace)
    \/ \E l \in links, status \in Statuses \cup {NULL},
          notes \in UpdateNotes, w \in UpdateWordIds :
          UpdateTextLink(l.text_id, l.id, status, notes, w)
    \/ \E l \in links : DeleteTextLink(l.text_id, l.id)

SpecOrder == InitOrder /\ [][NextOrder]_vars

\* C21: Left-to-right order without collision.  The list one call of
\* suggest_links_for_text returns is in strictly increasing order of
\* start_char and its spans are pairwise disjoint: each link ends at or before
\* the start of every later one, so no two of them have the same span.
C21_OrderedDisjoint ==
    SuggestCall =>
        \A i \in 1..Len(lastOp.created), j \in 1..Len(lastOp.created) :
            i < j =>
                /\ lastOp.created[i].start_char < lastOp.created[j].start_char
                /\ lastOp.created[i].end_char <= lastOp.created[j].start_char
                /\ Span(lastOp.created[i]) # Span(lastOp.created[j])

\* A call that returned two links, the first of them for a token of several
\* characters that holds a shorter word of the catalog.
C21_Witness ==
    /\ SuggestCall
    /\ Len(lastOp.created) >= 2
    /\ lastOp.created[1].end_char - lastOp.created[1].start_char > 1
    /\ \E i \in 1..Len(words) :
          WordTable[words[i]].word =
              SubSeq(Slice(lastOp.created[1]), 1, 1)

(***************************************************************************)
(* Review next to the engine: the tables start with the rejected link at   *)
(* the first token of t1; the contributor sets links to confirmed or       *)
(* rejected and deletes links that are reviewed.                           *)
(***************************************************************************)
InitReview ==
    /\ texts = [t \in TextIds |->
                   [content |-> IF t = "t1" THEN LongContent ELSE <<>>,
                    language_id |-> "L1"]]
    /\ words = <<"w3", "w1">>
    /\ links = {RejectedLink}
    /\ lastOp = NoOp
    /\ sessions = [r \in Requests |-> NoSession]
    /\ call = NoCall

NextReview ==
    \/ \E t \in TextIds, creator \in Creators, replace \in BOOLEAN :
          SuggestLinksForText(t, creator, replace)
    \/ \E l \in links, status \in Reviewed,
          notes \in UpdateNotes, w \in UpdateWordIds :
          UpdateTextLink(l.text_id, l.id, status, notes, w)
    \/ \E l \in links : l.status \in Reviewed /\ DeleteTextLink(l.text_id, l.id)

SpecReview == InitReview /\ [][NextReview]_vars

\* The span of link l is the span of a token of its text that a word of the
\* catalog matches.
AtMatchedToken(l) ==
    \E tok \in MatchedTokens(l.text_id) : Span(l) = <<tok.start, tok.end>>

\* C22: Deletion un-blocks a span.  When delete_text_link removes a rejected
\* or confirmed link stored at the span of a token that a word of the catalog
\* matches, a call of suggest_links_for_text on that text that comes next,
\* with either flag, creates a suggested link at that span and stores it.
C22_DeletionUnblocks ==
    [][\A l \in links :
          ( /\ l.status \in Reviewed
            /\ AtMatchedToken(l)
            /\ HasLanguageAndContent(l.text_id)
            /\ DeleteTextLink(l.text_id, l.id) )
          => \A creator \in Creators, replace \in BOOLEAN :
                LET r == suggest_links_for_text(links', texts', words',
                                                l.text_id, creator, replace)
                IN  \E i \in 1..Len(r.created) :
                       /\ r.created[i].text_id = l.text_id
                       /\ Span(r.created[i]) = Span(l)
                       /\ r.created[i].status = "suggested"
                       /\ r.created[i] \in r.links]_vars

\* A call that created a link at the span of the rejected link of the
\* start, a span no link held when the call began: the reviewed link there
\* was deleted (only reviewed links are deleted, and the engine leaves no
\* span of a matched token free).
C22_Witness ==
    /\ SuggestCall
    /\ lastOp.text = RejectedLink.text_id
    /\ \A l \in LinksBefore(lastOp.text, Statuses) : Span(l) # Span(RejectedLink)
    /\ \E n \in Returned :
          Span(n) = Span(RejectedLink) /\ n \in links /\ n.status = "suggested"

(***************************************************************************)
(* Status flips: from the same tables, the contributor only sets links to  *)
(* confirmed or rejected, and the engine runs with either flag in between. *)
(***************************************************************************)
NextFlips ==
    \/ \E t \in TextIds, creator \in Creators, replace \in BOOLEAN :
          SuggestLinksForText(t, creator, replace)
    \/ \E l \in links, status \in Reviewed,
          notes \in UpdateNotes, w \in UpdateWordIds :
          UpdateTextLink(l.text_id, l.id, status, notes, w)

SpecFlips == InitReview /\ [][NextFlips]_vars

\* The links stored at the text and span of link l.
StoredAt(l) == {x \in links : x.text_id = l.text_id /\ Span(x) = Span(l)}

\* C23: Reviewed spans stay occupied across status flips.  Whatever changes
\* of status between confirmed and rejected and whatever calls of the engine
\* have taken place, the link reviewed at the start is the one link stored at
\* its span, confirmed or rejected; and a call of the engine leaves every
\* link that was confirmed or rejected when it began as it was, the only
\* link at its span, and returns no link for that span.
C23_OccupiedAcrossFlips ==
    /\ \E l \in links :
          /\ l.id = RejectedLink.id
          /\ l.status \in Reviewed
          /\ StoredAt(RejectedLink) = {l}
    /\ SuggestCall =>
          \A l \in LinksBefore(lastOp.text, Reviewed) :
              /\ StoredAt(l) = {l}
              /\ \A n \in Returned : Span(n) # Span(l)

\* A call with replacement, which created a link elsewhere, on the text
\* whose link rejected at the start had been set to confirmed by then.
C23_Witness ==
    /\ SuggestCall /\ lastOp.replace
    /\ Returned # {}
    /\ \E l \in lastOp.before :
          l.id = RejectedLink.id /\ l.status = "confirmed" /\ l \in links

(***************************************************************************)
(* A review served while a regenerate request is in progress.  The request *)
(* of update_text_link is short: it reads the row, writes it and commits.  *)
(* The engine holds the rows it has loaded as objects of its session, with *)
(* the status they had when the query ran.                                 *)
(***************************************************************************)
\* The rows some request has deleted and not yet committed: an UPDATE of
\* such a row waits until that request has ended.
LockedByRequests ==
    {l \in links : \E x \in Requests :
        /\ sessions[x].pc \in {"flushed", "computed"}
        /\ l.id \in Ids(sessions[x].deleted)}

\* PATCH /texts/{text_id}/links/{link_id} with a status, next to requests
\* in progress.
ReviewTextLink(l, status) ==
    /\ l \notin LockedByRequests
    /\ UpdateTextLink(l.text_id, l.id, status, NULL, NULL)

NextRace ==
    \/ \E t \in TextIds : LoadLinks("r1", t)
    \/ FlushDeletions("r1")
    \/ QueryWords("r1")
    \/ Commit("r1")
    \/ \E l \in links, status \in Reviewed : ReviewTextLink(l, status)

SpecRace == InitRequests /\ [][NextRace]_vars

\* C24: Human review is honoured under interleaving.  When a regenerate
\* request commits, every link that is stored as confirmed or rejected at
\* that moment, set so by update_text_link before or while the request was
\* in progress, is still stored with that status afterwards, and the request
\* has added no link at its span.
C24_ReviewHonoured ==
    [][\A r \in Requests :
          Commit(r) =>
              \A l \in links :
                  l.status \in Reviewed =>
                      /\ l \in links'
                      /\ \A n \in links' \ links :
                            ~(n.text_id = l.text_id /\ Span(n) = Span(l))]_vars

(***************************************************************************)
(* Links made by hand next to the engine: the contributor creates links on *)
(* t1, at the span of its first token or across both of its tokens, with   *)
(* any status, and deletes links; the engine runs in between.              *)
(***************************************************************************)
\* The spans a create_text_link request carries: the first token of t1, and
\* a span that covers both tokens of t1 and is the span of neither.
ReviewSpans == {<<0, 1>>, <<0, 3>>}
ReviewTextIds == {"t1"}

NextManual ==
    \/ \E t \in ReviewTextIds, creator \in Creators, replace \in BOOLEAN :
          SuggestLinksForText(t, creator, replace)
    \/ \E t \in ReviewTextIds, w \in ManualWordIds, sp \in ReviewSpans,
          status \in Statuses, notes \in ManualNotes :
          CreateTextLink(t, w, sp[1], sp[2], status, notes)
    \/ \E l \in links : DeleteTextLink(l.text_id, l.id)

SpecManual == InitRequests /\ [][NextManual]_vars

\* The spans of link l and of token tok share a character and differ.
Overlapping(l, tok) ==
    /\ l.start_char < tok.end /\ tok.start < l.end_char
    /\ Span(l) # <<tok.start, tok.end>>
\* No link of the set ls has the span of token tok.
FreeIn(ls, tok) == \A l \in ls : Span(l) # <<tok.start, tok.end>>

C27_CreateRefusesOccupiedSpan ==
    [][\A t \in ReviewTextIds, w \in ManualWordIds, sp \in ReviewSpans,
          status \in Statuses, notes \in ManualNotes :
          CreateTextLink(t, w, sp[1], sp[2], status, notes) =>
              IF \E l \in links : l.text_id = t /\ Span(l) = sp
              THEN lastOp'.code = "400" /\ links' = links
              ELSE /\ lastOp'.code = "ok"
                   /\ links \subseteq links'
                   /\ Cardinality(links' \ links) = 1
                   /\ \A n \in links' \ links :
                         /\ n.text_id = t /\ Span(n) = sp
                         /\ n.word_id = w /\ n.status = status]_vars

\* A request answered 400 while the store holds, at the span the requests
\* of the contributor share with the engine, a link that is rejected.
C27_Witness ==
    /\ lastOp.op = "create" /\ lastOp.code = "400"
    /\ \E l \in links :
          l.text_id \in ReviewTextIds /\ Span(l) \in ReviewSpans
          /\ l.status = "rejected"
    /\ \A sp \in ReviewSpans : \E l \in links : Span(l) = sp

\* The places in the catalog of the words of a language other than that of
\* text t whose normalized key is the key of the token.
OtherLanguagePlaces(t, token) ==
    {i \in 1..Len(words) :
        /\ WordTable[words[i]].language_id # texts[t].language_id
        /\ strip_diacritics(WordTable[words[i]].word) = strip_diacritics(token)}

\* C26: Language scoping.  Every link a call of suggest_links_for_text
\* creates is to a word whose language is the language the text has at the
\* call; a token whose key only words of other languages have gets no link.
C26_LanguageScoping ==
    SuggestCall =>
        /\ \A n \in Returned :
              WordTable[n.word_id].language_id = texts[n.text_id].language_id
        /\ HasLanguageAndContent(lastOp.text) =>
              LET toks == iter_tokens(texts[lastOp.text].content)
              IN  \A k \in 1..Len(toks) :
                     ~HasCatalogWord(lastOp.text, toks[k])
                         => CreatedAt(toks[k]) = {}

\* A call that created a link for a token whose key a word of another
\* language has too, a word that comes first in the catalog.
C26_Witness ==
    /\ SuggestCall
    /\ \E n \in Returned :
          \E i \in OtherLanguagePlaces(n.text_id, Slice(n)) :
              \A j \in SameKeyPlaces(n.text_id, Slice(n)) : i < j

\* The links a request loaded as suggested and found a token for again.
Recreated(s) ==
    {l \in s.loaded :
        /\ l.status = "suggested"
        /\ \E i \in 1..Len(s.created) :
              s.created[i].text_id = l.text_id /\ Span(s.created[i]) = Span(l)}

\* C28: Delete-before-insert ordering.  In a regenerate request served on
\* its own, the deletions of all the suggested links it loaded have been
\* sent to the database by the time it has links to insert, and its commit
\* never meets the unique constraint: the links it created are stored, also
\* those at the span of a suggestion it deleted.
C28_DeleteBeforeInsert ==
    \A r \in Requests :
        LET s == sessions[r]
        IN  /\ s.pc \in {"computed", "done"} =>
                  {l \in s.loaded : l.status = "suggested"} \subseteq s.deleted
            /\ s.code # "unique_violation"
            /\ (s.pc = "done" /\ s.code = "ok") =>
                  /\ \A i \in 1..Len(s.created) : s.created[i] \in links
                  /\ s.deleted \cap links = {}

\* A request that has committed a link at the span of a suggestion it had
\* loaded and deleted.
C28_Witness ==
    \E r \in Requests :
        /\ sessions[r].pc = "done" /\ sessions[r].code = "ok"
        /\ Recreated(sessions[r]) # {}
        /\ \A l \in Recreated(sessions[r]) : l \notin links

\* C29: Text isolation.  A call of suggest_links_for_text on a text creates
\* links of that text only and leaves the links of every other text as they
\* were; the links of other texts block nothing: each matched token of the
\* text whose span no link of the text itself holds, after the replacement
\* step, gets its link, whatever the other texts hold at that span.
C29_TextIsolation ==
    SuggestCall =>
        /\ \A n \in Returned : n.text_id = lastOp.text
        /\ \A b \in TextIds \ {lastOp.text} :
              {l \in links : l.text_id = b} = {l \in lastOp.before : l.text_id = b}
        /\ \A tok \in MatchedTokens(lastOp.text) :
              FreeIn(KeptLinks(lastOp.text), tok)
                  => Cardinality(CreatedAt(tok)) = 1

\* A call with replacement that created a link at a span at which another
\* text of the document held a suggested link of a token of its own, which
\* is still stored.
C29_Witness ==
    /\ SuggestCall /\ lastOp.replace
    /\ \E n \in Returned, l \in lastOp.before :
          /\ l.text_id # lastOp.text
          /\ DocumentOf(l.text_id) = DocumentOf(lastOp.text)
          /\ Span(l) = Span(n)
          /\ l.status = "suggested"
          /\ AtMatchedToken(l)
          /\ l \in links

\* What a link is apart from its id: span, word and status; span and word.
StoredTuples(ls) == {<<l.start_char, l.end_char, l.word_id, l.status>> : l \in ls}
SpanWordPairs(ls) == {<<l.start_char, l.end_char, l.word_id>> : l \in ls}

\* C30: Regeneration is idempotent on the stored state.  When
\* suggest_links_for_text runs with replace_existing_suggestions = True right
\* after the same call on the same text, with nothing changed in between, the
\* links stored for the text have the same (start_char, end_char, word_id,
\* status) tuples after the second call as after the first, and the second
\* call returns links with the same spans and words as the first, which are
\* the suggestions the first call left (none for a text without language or
\* content).
C30_RegenerationIdempotent ==
    (SuggestCall /\ lastOp.replace /\ lastOp.rerun) =>
        /\ StoredTuples({l \in links : l.text_id = lastOp.text})
              = StoredTuples(LinksBefore(lastOp.text, Statuses))
        /\ Cardinality(SpanWordPairs(Returned)) = Len(lastOp.created)
        /\ IF HasLanguageAndContent(lastOp.text)
           THEN SpanWordPairs(Returned)
                    = SpanWordPairs(LinksBefore(lastOp.text, {"suggested"}))
           ELSE lastOp.created = <<>>

\* A second call with replacement that returned links, with new ids, on a
\* text that holds a reviewed link too.
C30_Witness ==
    /\ SuggestCall /\ lastOp.replace /\ lastOp.rerun
    /\ Returned # {}
    /\ Returned \cap lastOp.before = {}
    /\ LinksBefore(lastOp.text, Reviewed) # {}

====
